---- MODULE Spec2Model ----
(***************************************************************************)
(* Protection-need propagation of hutschen/ismodel (src/ismodel.py; the    *)
(* German-named src/infosec.py is the same program with other identifiers).*)
(*                                                                         *)
(* Representation.  A Python list of remarks is modelled as a bag          *)
(* (multiset): the number of occurrences of every remark is kept, the      *)
(* position is not.  set(...) of a list is the set of the bag's elements;  *)
(* unpacking a set into ProtectionNeed(...) gives every element once, in   *)
(* an order that Python leaves unspecified and that the bag does not       *)
(* record.  Iterating a Python set of nodes (self._children,               *)
(* self.dependent) has an unspecified order as well: every order is        *)
(* modelled (Unpack), so an effective need is a set of possible outcomes.  *)
(***************************************************************************)
EXTENDS Integers, Sequences, FiniteSets, Bags, TLC

VARIABLES
    structs,  \* the Structure objects constructed so far, by object number
    model,    \* the Model object: None, or its layer lists
    args,     \* arguments of the ProtectionNeed operation under study
    op,       \* which ProtectionNeed operation has been applied to args
    result,   \* what that operation returned
    export    \* the CSV files written so far and how the last write_csvs ended

vars == <<structs, model, args, op, result, export>>

\* Python's None where the value is otherwise a record (a ProtectionNeed, a
\* category, the Model)
None == [none |-> TRUE]

\* Python's None where the value is otherwise a positive integer (a reference
\* to a Structure object, an id)
Null == 0

----------------------------------------------------------------------------
(* Bounds of the model *)

MaxRemarks == 2     \* remarks passed to one ProtectionNeed(...) call
MaxArgs == 3        \* arguments passed to one determine(...) call
MaxStructs == 4     \* Structure objects constructed
NumClasses == 3     \* classes of the layer chain in use, from Information up
MaxExported == 3    \* Structure objects constructed for an export

Remarks == {"a", "b"}

----------------------------------------------------------------------------
(* ProtectionNeedCategory and the three module-level categories *)

ProtectionNeedCategory(designation, subordinate) ==
    [designation |-> designation,
     level |-> IF subordinate = None THEN 0 ELSE subordinate.level + 1]

NORMAL == ProtectionNeedCategory("Normal", None)
HIGH == ProtectionNeedCategory("Hoch", NORMAL)
VERY_HIGH == ProtectionNeedCategory("Sehr hoch", HIGH)

Categories == {NORMAL, HIGH, VERY_HIGH}

----------------------------------------------------------------------------
(* ProtectionNeed *)

RECURSIVE ListToBag(_)
\* list(remarks): the remarks of a call, every occurrence kept
ListToBag(remarks) ==
    IF remarks = <<>> THEN EmptyBag
    ELSE SetToBag({Head(remarks)}) (+) ListToBag(Tail(remarks))

\* ProtectionNeed.__init__(category, *remarks)
ProtectionNeed(category, remarks) ==
    [category |-> category, remarks |-> ListToBag(remarks)]

\* ProtectionNeed(category, *s) for a Python set s
ProtectionNeedOfSet(category, s) ==
    [category |-> category, remarks |-> SetToBag(s)]

\* Add with the remarks of both operands kept whatever the levels
AddMergeAlways(self, other) ==
    ProtectionNeedOfSet(
        IF self.category.level < other.category.level
        THEN other.category ELSE self.category,
        BagToSet(self.remarks (+) other.remarks))

\* self + other
Add(self, other) ==
    IF self.category.level < other.category.level THEN other
    ELSE IF self.category.level > other.category.level THEN self
    ELSE ProtectionNeedOfSet(self.category,
                             BagToSet(self.remarks (+) other.remarks))

\* self += other
IAdd(self, other) == Add(other, self)

RECURSIVE DetermineFirst(_, _)
\* determine returning the first declared argument
DetermineFirst(protection_need, rest) ==
    IF rest = <<>> THEN protection_need
    ELSE IF protection_need = None
         THEN DetermineFirst(Head(rest), Tail(rest))
         ELSE protection_need

RECURSIVE DetermineFrom(_, _)
\* the loop of determine: protection_need is the accumulator, rest the
\* arguments not yet visited
DetermineFrom(protection_need, rest) ==
    IF rest = <<>> THEN protection_need
    ELSE LET pn == Head(rest) IN
         IF pn # None
         THEN IF protection_need = None
              THEN DetermineFrom(pn, Tail(rest))
              ELSE DetermineFrom(IAdd(protection_need, pn), Tail(rest))
         ELSE DetermineFrom(protection_need, Tail(rest))

\* ProtectionNeed.determine(*protection_needs)
determine(protection_needs) == DetermineFrom(None, protection_needs)

----------------------------------------------------------------------------
(* Inputs of the ProtectionNeed operations *)

RemarkLists == UNION {[1..n -> Remarks] : n \in 0..MaxRemarks}

NeedInputs == {ProtectionNeed(c, r) : c \in Categories, r \in RemarkLists}

ArgLists == UNION {[1..n -> NeedInputs \cup {None}] : n \in 0..MaxArgs}

----------------------------------------------------------------------------
(* Operations on ProtectionNeed values *)

InitNeed ==
    /\ structs = <<>>
    /\ model = None
    /\ args \in ArgLists
    /\ op = "none"
    /\ result = None
    /\ export = None

\* a + b for the two arguments
DoAdd ==
    /\ op = "none"
    /\ Len(args) = 2
    /\ args[1] # None /\ args[2] # None
    /\ op' = "add"
    /\ result' = Add(args[1], args[2])
    /\ UNCHANGED <<structs, model, args, export>>

\* ProtectionNeed.determine(*args)
DoDetermine ==
    /\ op = "none"
    /\ op' = "determine"
    /\ result' = determine(args)
    /\ UNCHANGED <<structs, model, args, export>>

NextNeed == DoAdd \/ DoDetermine

SpecNeed == InitNeed /\ [][NextNeed]_vars

----------------------------------------------------------------------------
(* Structure and SecondaryStructure *)

\* The concrete classes, numbered in the order of the layer chain.  Class 1
\* (Information) derives from Structure; class k > 1 derives from
\* SecondaryStructure[class k - 1].
ClassNames ==
    <<"Information", "BusinessProcess", "Application",
      "Infrastructure", "Room", "Building">>

Classes == 1..NumClasses

IsSecondary(cls) == cls > 1

Dimensions == {"integrity", "availability", "confidentiality"}

Objects == 1..Len(structs)

\* Structure.__init__ followed, for a secondary class, by the rest of
\* SecondaryStructure.__init__; self is the number of the new object.  A
\* Structure has no _dependent attribute: the model keeps the empty set there.
NewStructure(cls, parent, hidden, integrity, availability, confidentiality, dependent) ==
    /\ Len(structs) < MaxStructs
    /\ LET self == Len(structs) + 1
           obj == [cls |-> cls,
                   _id |-> Null,
                   _hidden |-> hidden,
                   _integrity |-> integrity,
                   _availability |-> availability,
                   _confidentiality |-> confidentiality,
                   _parent |-> parent,
                   _children |-> {},
                   _dependent |-> IF IsSecondary(cls) THEN dependent ELSE {}]
       IN structs' =
             [i \in 1..self |->
                 IF i = self THEN obj
                 ELSE IF i = parent
                      THEN [structs[i] EXCEPT !._children = @ \cup {self}]
                      ELSE structs[i]]
    /\ UNCHANGED <<model, args, op, result, export>>

RECURSIVE level(_)
\* Structure.level
level(n) ==
    IF structs[n]._parent = Null THEN 0 ELSE level(structs[n]._parent) + 1

RECURSIVE children(_)
\* Structure.children: all structural descendants
children(n) ==
    UNION {{child} \cup children(child) : child \in structs[n]._children}

\* hidden that looks at the own flag of the parent only
hiddenOneHop(n) ==
    (IF structs[n]._parent # Null
     THEN structs[structs[n]._parent]._hidden ELSE FALSE)
        \/ structs[n]._hidden

RECURSIVE hidden(_)
\* Structure.hidden
hidden(n) ==
    (IF structs[n]._parent # Null THEN hidden(structs[n]._parent) ELSE FALSE)
        \/ structs[n]._hidden

\* dependent without the structures subordinate to the declared dependents
dependentDeclaredOnly(n) ==
    structs[n]._dependent
        \cup UNION {structs[sub]._dependent : sub \in children(n)}

RECURSIVE dependentAcrossLayers(_)
\* dependent that also follows the dependents of the dependents
dependentAcrossLayers(n) ==
    UNION {{d} \cup children(d) \cup dependentAcrossLayers(d) :
              d \in structs[n]._dependent}
        \cup UNION {dependentAcrossLayers(sub) : sub \in children(n)}

RECURSIVE dependentOfSubordinates(_)
\* dependent that takes the dependents of the subordinate structures in
\* place of the declared ones as soon as there is a subordinate structure
dependentOfSubordinates(n) ==
    IF structs[n]._children = {}
    THEN UNION {{d} \cup children(d) : d \in structs[n]._dependent}
    ELSE UNION {dependentOfSubordinates(sub) : sub \in structs[n]._children}

RECURSIVE dependent(_)
\* SecondaryStructure.dependent
dependent(n) ==
    UNION {{d} \cup children(d) : d \in structs[n]._dependent}
        \cup UNION {dependent(sub) : sub \in children(n)}

\* the declared need of an object in a dimension: the attribute the property
\* of that name reads
Declared(s, d) ==
    CASE d = "integrity" -> s._integrity
      [] d = "availability" -> s._availability
      [] d = "confidentiality" -> s._confidentiality

RECURSIVE NearestDeclared(_, _)
\* the declaration of the nearest ancestor that declares d
NearestDeclared(n, d) ==
    IF structs[n]._parent = Null THEN None
    ELSE IF Declared(structs[structs[n]._parent], d) # None
         THEN Declared(structs[structs[n]._parent], d)
         ELSE NearestDeclared(structs[n]._parent, d)

\* self._parent._<d> if self._parent is not None else None
ParentDeclared(n, d) ==
    IF structs[n]._parent # Null
    THEN Declared(structs[structs[n]._parent], d)
    ELSE None

RECURSIVE Unpack(_, _)
\* *map(f, S) for a Python set S: the values in any iteration order of S;
\* vals[x] is the set of values f(x) can have
Unpack(S, vals) ==
    IF S = {} THEN {<<>>}
    ELSE UNION {{<<v>> \o rest : v \in vals[x],
                                 rest \in Unpack(S \ {x}, vals)} : x \in S}

RECURSIVE StructureNeed(_, _), SecondaryNeed(_, _), effective(_, _)

\* the need of a Structure without the parent's declaration
StructureNeedNoParent(n, d) ==
    LET subs == [s \in structs[n]._children |-> effective(s, d)]
    IN {determine(<<Declared(structs[n], d)>> \o cs) :
           cs \in Unpack(structs[n]._children, subs)}

\* the need of a SecondaryStructure without the dependents
SecondaryNeedNoDependent(n, d) ==
    LET subs == [sub \in structs[n]._children |-> effective(sub, d)]
    IN {determine(<<ParentDeclared(n, d), Declared(structs[n], d)>> \o cs) :
           cs \in Unpack(structs[n]._children, subs)}

\* Structure.integrity / availability / confidentiality: the values the
\* property can return
StructureNeed(n, d) ==
    LET subs == [s \in structs[n]._children |-> effective(s, d)]
    IN {determine(<<ParentDeclared(n, d), Declared(structs[n], d)>> \o cs) :
           cs \in Unpack(structs[n]._children, subs)}

\* SecondaryStructure.integrity / availability / confidentiality
SecondaryNeed(n, d) ==
    LET deps == [x \in dependent(n) |-> effective(x, d)]
        subs == [sub \in structs[n]._children |-> effective(sub, d)]
    IN {determine(<<ParentDeclared(n, d), Declared(structs[n], d)>>
                      \o ds \o cs) :
           ds \in Unpack(dependent(n), deps),
           cs \in Unpack(structs[n]._children, subs)}

\* n.<d>, dispatched on the class of n
effective(n, d) ==
    IF IsSecondary(structs[n].cls) THEN SecondaryNeed(n, d)
    ELSE StructureNeed(n, d)

----------------------------------------------------------------------------
(* Model *)

\* Model.__init__: "x or []" keeps a non-empty list and replaces an absent
\* or empty one by a new empty list
Model(informations, processes, applications, infrastructures, rooms, buildings) ==
    [informations |-> informations,
     processes |-> processes,
     applications |-> applications,
     infrastructures |-> infrastructures,
     rooms |-> rooms,
     buildings |-> buildings]

NewModel(informations, processes, applications, infrastructures, rooms, buildings) ==
    /\ model = None
    /\ model' = Model(informations, processes, applications, infrastructures,
                      rooms, buildings)
    /\ UNCHANGED <<structs, args, op, result, export>>

RECURSIVE SetIdsFrom(_, _, _, _)
\* the loop of _set_structure_ids from position id on; ss are the objects as
\* the earlier iterations have left them.  s.hidden reads flags and parents,
\* which the loop does not change.
SetIdsFrom(ss, structures, id, skip_hidden) ==
    IF id > Len(structures) THEN ss
    ELSE LET s == structures[id] IN
         IF ss[s]._id = Null /\ ~(hidden(s) /\ skip_hidden)
         THEN SetIdsFrom([ss EXCEPT ![s]._id = id], structures, id + 1,
                         skip_hidden)
         ELSE SetIdsFrom(ss, structures, id + 1, skip_hidden)

RECURSIVE SetIdsCounting(_, _, _, _, _)
\* the loop with a counter of the ids given instead of the position
SetIdsCounting(ss, structures, pos, next, skip_hidden) ==
    IF pos > Len(structures) THEN ss
    ELSE LET s == structures[pos] IN
         IF ss[s]._id = Null /\ ~(hidden(s) /\ skip_hidden)
         THEN SetIdsCounting([ss EXCEPT ![s]._id = next], structures,
                             pos + 1, next + 1, skip_hidden)
         ELSE SetIdsCounting(ss, structures, pos + 1, next, skip_hidden)

\* _set_structure_ids numbering the assigned nodes consecutively
SetStructureIdsCompact(ss, structures, skip_hidden) ==
    SetIdsCounting(ss, structures, 1, 1, skip_hidden)

\* _set_structure_ids taking the id away from a skipped node
SetStructureIdsReset(ss, structures, skip_hidden) ==
    [n \in DOMAIN ss |->
        IF \E i \in 1..Len(structures) : structures[i] = n
        THEN [ss[n] EXCEPT !._id =
                 IF hidden(n) /\ skip_hidden THEN Null
                 ELSE CHOOSE i \in 1..Len(structures) : structures[i] = n]
        ELSE ss[n]]

\* Model._set_structure_ids(structures, skip_hidden)
SetStructureIds(ss, structures, skip_hidden) ==
    SetIdsFrom(ss, structures, 1, skip_hidden)

\* Model._set_all_structure_ids(skip_hidden)
SetAllStructureIds(ss, m, skip_hidden) ==
    LET s1 == SetStructureIds(ss, m.informations, skip_hidden)
        s2 == SetStructureIds(s1, m.processes, skip_hidden)
        s3 == SetStructureIds(s2, m.applications, skip_hidden)
        s4 == SetStructureIds(s3, m.infrastructures, skip_hidden)
        s5 == SetStructureIds(s4, m.rooms, skip_hidden)
    IN SetStructureIds(s5, m.buildings, skip_hidden)

\* a call of Model._set_all_structure_ids(skip_hidden), the first statement
\* of Model.write_csvs(dirname, skip_hidden) and the only one that changes a
\* Structure
SetAllIds(skip_hidden) ==
    /\ model # None
    /\ structs' = SetAllStructureIds(structs, model, skip_hidden)
    /\ UNCHANGED <<model, args, op, result, export>>

----------------------------------------------------------------------------
(* Record projection and CSV export *)

\* the keys ProtectionNeed.to_dict() contributes for a dimension, prefixed as
\* in Structure.to_dict; none when the property returns None
NeedKeys(n, d, schutzbedarf, anmerkungen) ==
    IF effective(n, d) # {None} THEN <<schutzbedarf, anmerkungen>> ELSE <<>>

\* Structure.to_dict(): the keys of the dict, in insertion order
StructureToDict(n) ==
    <<"ID", "Ebene", "Name", "Beschreibung", "Anmerkung">>
        \o NeedKeys(n, "integrity",
                    "Integrität Schutzbedarf", "Integrität Anmerkungen")
        \o NeedKeys(n, "availability",
                    "Verfügbarkeit Schutzbedarf", "Verfügbarkeit Anmerkungen")
        \o NeedKeys(n, "confidentiality",
                    "Vertraulichkeit Schutzbedarf", "Vertraulichkeit Anmerkungen")

\* the key that to_dict of each concrete secondary class appends, by class
DependentKey ==
    <<"", "Information", "Geschäftsprozesse", "Anwendungen",
      "Infrastrukturen", "Räume">>

\* s.to_dict(), dispatched on the class of n: the keys in insertion order
to_dict(n) ==
    IF IsSecondary(structs[n].cls)
    THEN StructureToDict(n) \o <<DependentKey[structs[n].cls]>>
    ELSE StructureToDict(n)

\* the dict of structure n as the export holds it: the keys, and the value
\* of "ID", which is the _id in ss, the objects after the id assignment
DataDict(ss, n) == [of |-> n, ID |-> ss[n]._id, keys |-> to_dict(n)]

Range(seq) == {seq[i] : i \in 1..Len(seq)}

RECURSIVE CollectFrom(_, _, _, _, _, _)
\* the first loop of _write_structure_dicts_to_csv from position i on
CollectFrom(ss, structures, i, fieldnames, data_dicts, skip_hidden) ==
    IF i > Len(structures)
    THEN [fieldnames |-> fieldnames, data_dicts |-> data_dicts]
    ELSE LET s == structures[i] IN
         IF hidden(s) /\ skip_hidden
         THEN CollectFrom(ss, structures, i + 1, fieldnames, data_dicts,
                          skip_hidden)
         ELSE LET data == DataDict(ss, s)
                  keys == data.keys
              IN CollectFrom(ss, structures, i + 1,
                             IF Len(keys) > Len(fieldnames)
                             THEN keys ELSE fieldnames,
                             Append(data_dicts, data), skip_hidden)

RECURSIVE WriteRowsFrom(_, _, _, _)
\* the second loop: csv.DictWriter.writerow raises ValueError for a dict with
\* a key that is not among the fieldnames; the rows before it are in the file
WriteRowsFrom(fieldnames, data_dicts, i, rows) ==
    IF i > Len(data_dicts) THEN [rows |-> rows, raised |-> None]
    ELSE IF Range(data_dicts[i].keys) \subseteq Range(fieldnames)
         THEN WriteRowsFrom(fieldnames, data_dicts, i + 1,
                            Append(rows, data_dicts[i]))
         ELSE [rows |-> rows, raised |-> [exception |-> "ValueError"]]

\* Model._write_structure_dicts_to_csv(structures, filename, skip_hidden):
\* the file it leaves and the exception it raises, if any
WriteStructureDictsToCsv(ss, structures, skip_hidden) ==
    LET c == CollectFrom(ss, structures, 1, <<>>, <<>>, skip_hidden)
        w == WriteRowsFrom(c.fieldnames, c.data_dicts, 1, <<>>)
    IN [file |-> [header |-> c.fieldnames, rows |-> w.rows],
        raised |-> w.raised]

\* the file names of write_csvs, without the directory
FileNames ==
    <<"1_informationen.csv", "2_prozesse.csv", "3_anwendungen.csv",
      "4_infrastrukturen.csv", "5_raeume.csv", "6_gebaeude.csv">>

\* the layer lists of the Model in the order write_csvs exports them
LayerSeq(m) ==
    <<m.informations, m.processes, m.applications, m.infrastructures,
      m.rooms, m.buildings>>

RECURSIVE WriteFilesFrom(_, _, _, _, _)
\* the calls of _write_structure_dicts_to_csv in write_csvs from the k-th on;
\* files[k] is the content of FileNames[k], None while it does not exist.  An
\* exception ends write_csvs: the later files are not written.
WriteFilesFrom(ss, m, k, files, skip_hidden) ==
    IF k > Len(FileNames) THEN [files |-> files, raised |-> None]
    ELSE LET w == WriteStructureDictsToCsv(ss, LayerSeq(m)[k], skip_hidden)
             written == [files EXCEPT ![k] = w.file]
         IN IF w.raised # None
            THEN [files |-> written, raised |-> w.raised]
            ELSE WriteFilesFrom(ss, m, k + 1, written, skip_hidden)

\* Model.write_csvs(dirname, skip_hidden)
WriteCsvs(skip_hidden) ==
    /\ model # None
    /\ LET ss == SetAllStructureIds(structs, model, skip_hidden)
           before == IF export = None
                     THEN [k \in 1..Len(FileNames) |-> None]
                     ELSE export.files
       IN /\ structs' = ss
          /\ export' = WriteFilesFrom(ss, model, 1, before, skip_hidden)
    /\ UNCHANGED <<model, args, op, result>>

----------------------------------------------------------------------------
(* Building a forest with declared needs *)

InitStructs ==
    /\ structs = <<>>
    /\ model = None
    /\ args = <<>>
    /\ op = "none"
    /\ result = None
    /\ export = None

\* the (integrity, availability, confidentiality) arguments of a constructor
NeedProfiles ==
    {[integrity |-> None, availability |-> None, confidentiality |-> None],
     [integrity |-> None, availability |-> None,
      confidentiality |-> ProtectionNeed(NORMAL, <<"a">>)],
     [integrity |-> None, availability |-> None,
      confidentiality |-> ProtectionNeed(HIGH, <<"b">>)],
     [integrity |-> ProtectionNeed(VERY_HIGH, <<"a", "a">>),
      availability |-> None,
      confidentiality |-> ProtectionNeed(NORMAL, <<"b">>)]}

\* the objects a new object of class cls can name as its parent (its own
\* class) and as its dependents (the class below, the type parameter A)
ParentInputs(cls) ==
    {Null} \cup {n \in Objects : structs[n].cls = cls}

DependentInputs(cls) ==
    IF IsSecondary(cls)
    THEN SUBSET {n \in Objects : structs[n].cls = cls - 1}
    ELSE {{}}

NewDeclared ==
    \E cls \in Classes :
    \E parent \in ParentInputs(cls), dep \in DependentInputs(cls),
       pn \in NeedProfiles :
        NewStructure(cls, parent, FALSE, pn.integrity, pn.availability,
                     pn.confidentiality, dep)

NextTree == NewDeclared

SpecTree == InitStructs /\ [][NextTree]_vars

----------------------------------------------------------------------------
(* Building a forest with hidden flags, listing it in a Model and          *)
(* assigning ids                                                            *)

\* the lists of all objects of a class, in any order
LayerLists(cls) ==
    LET members == {n \in Objects : structs[n].cls = cls}
        k == Cardinality(members)
    IN {l \in [1..k -> members] : \A i, j \in 1..k : l[i] = l[j] => i = j}

\* the script constructs its structures before it constructs the Model
NewFlagged ==
    /\ model = None
    /\ \E cls \in Classes :
       \E parent \in ParentInputs(cls), flag \in BOOLEAN :
           NewStructure(cls, parent, flag, None, None, None, {})

NewModelOfAll ==
    \E informations \in LayerLists(1), processes \in LayerLists(2),
       applications \in LayerLists(3), infrastructures \in LayerLists(4),
       rooms \in LayerLists(5), buildings \in LayerLists(6) :
        NewModel(informations, processes, applications, infrastructures,
                 rooms, buildings)

SetAllIdsAny == \E skip_hidden \in BOOLEAN : SetAllIds(skip_hidden)

NextIds == NewFlagged \/ NewModelOfAll \/ SetAllIdsAny

SpecIds == InitStructs /\ [][NextIds]_vars

----------------------------------------------------------------------------
(* Building a small forest, listing it in a Model and exporting it *)

\* the (integrity, availability, confidentiality) arguments of a constructor
ExportProfiles ==
    {[integrity |-> None, availability |-> None, confidentiality |-> None],
     [integrity |-> ProtectionNeed(HIGH, <<"a">>), availability |-> None,
      confidentiality |-> None],
     [integrity |-> None, availability |-> ProtectionNeed(NORMAL, <<"b">>),
      confidentiality |-> None],
     [integrity |-> ProtectionNeed(NORMAL, <<"a">>), availability |-> None,
      confidentiality |-> ProtectionNeed(HIGH, <<"b">>)]}

\* the script constructs its structures before it constructs the Model
NewExported ==
    /\ model = None
    /\ Len(structs) < MaxExported
    /\ \E cls \in Classes :
       \E parent \in ParentInputs(cls), dep \in DependentInputs(cls),
          flag \in BOOLEAN, pn \in ExportProfiles :
           NewStructure(cls, parent, flag, pn.integrity, pn.availability,
                        pn.confidentiality, dep)

WriteCsvsAny == \E skip_hidden \in BOOLEAN : WriteCsvs(skip_hidden)

NextCsv == NewExported \/ NewModelOfAll \/ WriteCsvsAny

SpecCsv == InitStructs /\ [][NextCsv]_vars

----------------------------------------------------------------------------
(* Helpers of the properties *)

Max(a, b) == IF a < b THEN b ELSE a

\* level of an optional need; an absent need is below every category
LevelOf(pn) == IF pn = None THEN -1 ELSE pn.category.level

RemarkSet(pn) == IF pn = None THEN {} ELSE BagToSet(pn.remarks)

Perms(n) ==
    {p \in [1..n -> 1..n] : \A i, j \in 1..n : p[i] = p[j] => i = j}

MaxLevel(seq) ==
    CHOOSE m \in -1..2 :
        /\ \A i \in 1..Len(seq) : LevelOf(seq[i]) <= m
        /\ m = -1 \/ \E i \in 1..Len(seq) : LevelOf(seq[i]) = m

\* the remarks of exactly those arguments that have the maximum level
RemarksAtMax(seq) ==
    UNION {RemarkSet(seq[i]) :
              i \in {j \in 1..Len(seq) : LevelOf(seq[j]) = MaxLevel(seq)}}

----------------------------------------------------------------------------
(* C1: combine(a, b) has the category of the higher level; when the levels *)
(* differ the result carries exactly the remarks of the higher operand,    *)
(* when they are equal its remark set is the union of both remark sets.    *)
C1_Combine ==
    op = "add" =>
        LET a == args[1]
            b == args[2]
        IN /\ result.category.level = Max(a.category.level, b.category.level)
           /\ result.category \in Categories
           /\ a.category.level < b.category.level =>
                  result.remarks = b.remarks
           /\ a.category.level > b.category.level =>
                  result.remarks = a.remarks
           /\ a.category.level = b.category.level =>
                  RemarkSet(result) = RemarkSet(a) \cup RemarkSet(b)

\* a lower operand whose remark is not among the higher one's is combined
C1_Witness ==
    /\ op = "add"
    /\ args[1].category.level < args[2].category.level
    /\ ~(RemarkSet(args[1]) \subseteq RemarkSet(args[2]))
    /\ result = args[2]

(* C2: determine is order-independent: for every permutation of the        *)
(* arguments the result is absent iff all arguments are absent, and        *)
(* otherwise has the maximum level among the arguments and the union of    *)
(* the remarks of exactly the arguments at that level.                     *)
C2_DetermineOrderIndependent ==
    op = "determine" =>
        /\ result = determine(args)
        /\ \A p \in Perms(Len(args)) :
              LET r == determine([i \in 1..Len(args) |-> args[p[i]]])
              IN /\ (r = None) <=> (\A i \in 1..Len(args) : args[i] = None)
                 /\ r # None =>
                       /\ r.category.level = MaxLevel(args)
                       /\ RemarkSet(r) = RemarksAtMax(args)
                 /\ LevelOf(r) = LevelOf(result)
                 /\ RemarkSet(r) = RemarkSet(result)

\* a lower need first, then two needs tied at a higher level, different remarks
C2_Witness ==
    /\ op = "determine"
    /\ Len(args) = 3
    /\ args[1] # None /\ args[2] # None /\ args[3] # None
    /\ args[1].category.level < args[2].category.level
    /\ args[2].category.level = args[3].category.level
    /\ RemarkSet(args[1]) = {"a"}
    /\ RemarkSet(args[2]) = {"b"}
    /\ RemarkSet(args[3]) = {}
    /\ RemarkSet(result) = {"b"}

----------------------------------------------------------------------------
(* Helpers of the properties about forests *)

Declares(n, d) == Declared(structs[n], d) # None

\* every value the property can return is None
Absent(n, d) == \A r \in effective(n, d) : r = None

RECURSIVE Ancestors(_)
\* the objects reached from n by following _parent
Ancestors(n) ==
    IF structs[n]._parent = Null THEN {}
    ELSE {structs[n]._parent} \cup Ancestors(structs[n]._parent)

\* the structural descendants of n, read off the _parent references
Descendants(n) == {x \in Objects : n \in Ancestors(x)}

HasGrandparent(n) ==
    /\ structs[n]._parent # Null
    /\ structs[structs[n]._parent]._parent # Null

Parent(n) == structs[n]._parent

----------------------------------------------------------------------------
(* C3 as claimed: if the grandparent of n declares d but the parent, n,    *)
(* the descendants of n and (for a secondary node) the members of the      *)
(* dependent closure of n declare nothing for d, then effective(n, d) is   *)
(* absent and effective(parent(n), d) is the grandparent's declaration.    *)
C3_AsClaimed ==
    \A n \in Objects : \A d \in Dimensions :
        (/\ HasGrandparent(n)
         /\ Declares(Parent(Parent(n)), d)
         /\ ~Declares(Parent(n), d)
         /\ ~Declares(n, d)
         /\ \A c \in Descendants(n) : ~Declares(c, d)
         /\ IsSecondary(structs[n].cls) =>
                \A x \in dependent(n) : ~Declares(x, d))
        => /\ Absent(n, d)
           /\ effective(Parent(n), d)
                 = {Declared(structs[Parent(Parent(n))], d)}

(* C3 as amended: if the grandparent of n declares d but the parent and    *)
(* all structural descendants of the parent (n and its descendants among   *)
(* them) declare nothing for d and, for a secondary node, every member of  *)
(* the parent's dependent closure (which contains that of n) has an absent *)
(* effective need for d, then effective(n, d) is absent and                *)
(* effective(parent(n), d) is the grandparent's declaration: the parent    *)
(* contributes its own declaration, not its effective need.                *)
C3_ParentOwnDeclaration ==
    \A n \in Objects : \A d \in Dimensions :
        (/\ HasGrandparent(n)
         /\ Declares(Parent(Parent(n)), d)
         /\ ~Declares(Parent(n), d)
         /\ \A c \in Descendants(Parent(n)) : ~Declares(c, d)
         /\ IsSecondary(structs[n].cls) =>
                \A x \in dependent(Parent(n)) : Absent(x, d))
        => /\ Absent(n, d)
           /\ effective(Parent(n), d)
                 = {Declared(structs[Parent(Parent(n))], d)}

\* a secondary node with a dependent, below a parent that declares nothing
\* and a grandparent that declares confidentiality
C3_Witness ==
    \E n \in Objects :
        /\ HasGrandparent(n)
        /\ IsSecondary(structs[n].cls)
        /\ structs[n]._dependent # {}
        /\ Declares(Parent(Parent(n)), "confidentiality")
        /\ ~Declares(Parent(n), "confidentiality")
        /\ \A c \in Descendants(Parent(n)) : ~Declares(c, "confidentiality")
        /\ \A x \in dependent(Parent(n)) : Absent(x, "confidentiality")
        /\ Absent(n, "confidentiality")
        /\ ~Absent(Parent(n), "confidentiality")

(* C4: the level of effective(n, d) is at least the level of the           *)
(* declaration of n, of the declaration of every structural descendant of  *)
(* n, and (for a secondary node) of effective(dep, d) for every dep in the *)
(* dependent closure; so the declaration of an information asset bounds    *)
(* from below the effective need of every process with the asset in its    *)
(* closure and of every application with that process in its closure.      *)
C4_UpwardPropagation ==
    \A n \in Objects : \A d \in Dimensions : \A r \in effective(n, d) :
        /\ LevelOf(r) >= LevelOf(Declared(structs[n], d))
        /\ \A c \in Descendants(n) :
              LevelOf(r) >= LevelOf(Declared(structs[c], d))
        /\ IsSecondary(structs[n].cls) =>
              \A x \in dependent(n) : \A rx \in effective(x, d) :
                  /\ LevelOf(r) >= LevelOf(rx)
                  /\ LevelOf(rx) >= LevelOf(Declared(structs[x], d))
                  /\ IsSecondary(structs[x].cls) =>
                        \A y \in dependent(x) :
                            LevelOf(r) >= LevelOf(Declared(structs[y], d))

\* an information asset declared High, a process and an application without
\* declarations that reach it through their closures
C4_Witness ==
    \E i, q, a \in Objects :
        /\ structs[i].cls = 1 /\ structs[q].cls = 2 /\ structs[a].cls = 3
        /\ LevelOf(Declared(structs[i], "confidentiality")) = HIGH.level
        /\ ~Declares(q, "confidentiality") /\ ~Declares(a, "confidentiality")
        /\ i \in dependent(q) /\ q \in dependent(a)
        /\ \A r \in effective(a, "confidentiality") :
              LevelOf(r) = HIGH.level

(* C5 as claimed: for every node, plain or secondary, effective(n, d) is   *)
(* absent iff neither n, nor its parent, nor any structural descendant of  *)
(* n declares d.                                                           *)
C5_AsClaimed ==
    \A n \in Objects : \A d \in Dimensions :
        Absent(n, d) <=>
            /\ ~Declares(n, d)
            /\ ParentDeclared(n, d) = None
            /\ \A c \in Descendants(n) : ~Declares(c, d)

(* C5 as amended: for a plain node effective(n, d) is absent iff neither   *)
(* n, nor its parent, nor any structural descendant of n declares d; for a *)
(* secondary node it is absent iff, in addition, every member of its       *)
(* dependent closure has an absent effective need for d.                   *)
C5_AbsentIff ==
    \A n \in Objects : \A d \in Dimensions :
        Absent(n, d) <=>
            /\ ~Declares(n, d)
            /\ ParentDeclared(n, d) = None
            /\ \A c \in Descendants(n) : ~Declares(c, d)
            /\ IsSecondary(structs[n].cls) =>
                  \A x \in dependent(n) : Absent(x, d)

\* a secondary node that declares nothing, as do its parent and descendants,
\* and whose need comes from its dependent closure alone
C5_Witness ==
    \E n \in Objects :
        /\ IsSecondary(structs[n].cls)
        /\ structs[n]._parent # Null
        /\ structs[n]._children # {}
        /\ ~Declares(n, "confidentiality")
        /\ ParentDeclared(n, "confidentiality") = None
        /\ \A c \in Descendants(n) : ~Declares(c, "confidentiality")
        /\ ~Absent(n, "confidentiality")

(* C6: the dependent closure of a secondary node n is exactly the set of   *)
(* nodes that are, or are structural descendants of, a node declared as a  *)
(* dependent by n or by a structural descendant of n.                      *)
C6_DependentClosure ==
    \A n \in Objects :
        IsSecondary(structs[n].cls) =>
            /\ dependent(n) =
                  {x \in Objects :
                      \E m \in {n} \cup Descendants(n) :
                      \E d \in structs[m]._dependent :
                          x = d \/ d \in Ancestors(x)}
            /\ structs[n]._children = {} =>
                  dependent(n) =
                      UNION {{d} \cup Descendants(d) :
                                d \in structs[n]._dependent}

\* the closure of n holds a descendant of a dependent declared by a child
C6_Witness ==
    \E n, c, d, x \in Objects :
        /\ IsSecondary(structs[n].cls)
        /\ structs[c]._parent = n
        /\ structs[n]._dependent = {}
        /\ structs[c]._dependent = {d}
        /\ structs[x]._parent = d
        /\ dependent(n) = {d, x}

\* Information I1 (root, confidentiality Normal, nothing else declared),
\* BusinessProcess P1 with dependents {I1}, root Application A1 with
\* dependents {P1}, nothing else constructed
ThreeLayers(i1, p1, a1) ==
    /\ Len(structs) = 3
    /\ structs[i1].cls = 1 /\ structs[p1].cls = 2 /\ structs[a1].cls = 3
    /\ structs[i1]._parent = Null /\ structs[a1]._parent = Null
    /\ structs[i1]._confidentiality # None
    /\ structs[i1]._confidentiality.category = NORMAL
    /\ ~Declares(p1, "confidentiality") /\ ~Declares(a1, "confidentiality")
    /\ structs[p1]._dependent = {i1}
    /\ structs[a1]._dependent = {p1}

(* C7 as claimed: in the three-layer example effective(A1,                 *)
(* confidentiality) is Normal and the dependent closure of A1 contains     *)
(* both P1 and I1.                                                         *)
C7_AsClaimed ==
    \A i1, p1, a1 \in Objects :
        ThreeLayers(i1, p1, a1) =>
            /\ \A r \in effective(a1, "confidentiality") :
                  r # None /\ r.category = NORMAL
            /\ {p1, i1} \subseteq dependent(a1)

(* C7 as amended: in the three-layer example effective(A1,                 *)
(* confidentiality) is Normal and the dependent closure of A1 is {P1}: it  *)
(* contains P1 but not I1.  The closure does not include the dependents of *)
(* the dependents; the need of I1 reaches A1 through effective(P1).        *)
C7_ThreeLayers ==
    \A i1, p1, a1 \in Objects :
        ThreeLayers(i1, p1, a1) =>
            /\ effective(a1, "confidentiality")
                  = {structs[i1]._confidentiality}
            /\ effective(p1, "confidentiality")
                  = {structs[i1]._confidentiality}
            /\ dependent(a1) = {p1}
            /\ dependent(p1) = {i1}

\* the three-layer example has been built
C7_Witness ==
    \E i1, p1, a1 \in Objects :
        /\ ThreeLayers(i1, p1, a1)
        /\ dependent(a1) = {p1}

----------------------------------------------------------------------------
(* Helpers of the properties about ids *)

\* the six layer lists of the Model
LayersOf(m) ==
    IF m = None THEN {}
    ELSE {m.informations, m.processes, m.applications, m.infrastructures,
          m.rooms, m.buildings}

(* C8: a run of identifier assignment gives each node whose id is absent   *)
(* its 1-based position in the layer list; with skip-hidden every          *)
(* effectively hidden node without an id stays without one and every       *)
(* non-hidden node gets exactly the id a run without skip-hidden gives it, *)
(* so skipped nodes leave gaps.                                            *)
C8_PositionalIds ==
    [][\A skip_hidden \in BOOLEAN :
          SetAllIds(skip_hidden) =>
              LET unskipped == SetAllStructureIds(structs, model, FALSE)
              IN \A l \in LayersOf(model) : \A i \in 1..Len(l) :
                    LET n == l[i] IN
                    /\ structs[n]._id = Null =>
                          IF skip_hidden /\ hidden(n)
                          THEN structs'[n]._id = Null
                          ELSE structs'[n]._id = i
                    /\ ~hidden(n) =>
                          structs'[n]._id = unskipped[n]._id]_vars

\* a layer of three with the hidden node in the middle left without an id
C8_Witness ==
    /\ model # None
    /\ \E l \in LayersOf(model) :
          /\ Len(l) = 3
          /\ structs[l[1]]._id = 1 /\ ~hidden(l[1])
          /\ structs[l[2]]._id = Null /\ hidden(l[2])
          /\ structs[l[3]]._id = 3 /\ ~hidden(l[3])

(* C9: over any sequence of assignment runs an id that is set never        *)
(* changes; a run on a layer whose nodes all have ids changes nothing; on  *)
(* a layer without an effectively hidden node a run with skip-hidden gives *)
(* the same ids as a run without it.                                       *)
C9_IdsStable ==
    /\ [][\A n \in Objects :
             structs[n]._id # Null => structs'[n]._id = structs[n]._id]_vars
    /\ [](\A l \in LayersOf(model) :
             /\ (\A i \in 1..Len(l) : structs[l[i]]._id # Null) =>
                   \A skip_hidden \in BOOLEAN :
                       SetStructureIds(structs, l, skip_hidden) = structs
             /\ (\A i \in 1..Len(l) : ~hidden(l[i])) =>
                   SetStructureIds(structs, l, TRUE)
                       = SetStructureIds(structs, l, FALSE))

\* a layer with a hidden node in which every node has its id: a run without
\* skip-hidden has been made
C9_Witness ==
    /\ model # None
    /\ \E l \in LayersOf(model) :
          /\ Len(l) >= 2
          /\ \A i \in 1..Len(l) : structs[l[i]]._id = i
          /\ \E i \in 1..Len(l) : hidden(l[i])
          /\ \E i \in 1..Len(l) : ~hidden(l[i])

(* C10: a node whose own hidden flag is true is effectively hidden, and so *)
(* is every structural descendant of it at any depth; a node is not        *)
(* effectively hidden only if its own flag and the own flags of all its    *)
(* ancestors are false.                                                    *)
C10_HiddenDownward ==
    \A n \in Objects :
        /\ structs[n]._hidden =>
              hidden(n) /\ \A c \in Descendants(n) : hidden(c)
        /\ ~hidden(n) =>
              ~structs[n]._hidden /\ \A a \in Ancestors(n) : ~structs[a]._hidden

\* a node hidden by its grandparent alone
C10_Witness ==
    \E n \in Objects :
        /\ HasGrandparent(n)
        /\ ~structs[n]._hidden
        /\ ~structs[Parent(n)]._hidden
        /\ structs[Parent(Parent(n))]._hidden
        /\ hidden(n)

----------------------------------------------------------------------------
\* no remark occurs more than once in the remarks of a need
NoDuplicates(pn) == \A r \in BagToSet(pn.remarks) : CopiesIn(r, pn.remarks) = 1

(* C11: every ProtectionNeed value that arises, constructed directly,      *)
(* returned by combine or returned by determine, has remarks without       *)
(* duplicate entries.                                                      *)
C11_NoDuplicateRemarks ==
    /\ \A i \in 1..Len(args) : args[i] # None => NoDuplicates(args[i])
    /\ result # None => NoDuplicates(result)

(* C12: constructing a structure never removes an element from the         *)
(* dependent closure of a secondary node: the closure after the            *)
(* construction is a superset of the closure before it.                    *)
C12_ClosureMonotone ==
    [][\A n \in Objects :
          IsSecondary(structs[n].cls) => dependent(n) \subseteq dependent(n)']_vars

\* a node with a declared dependent gets a child that declares another one:
\* the closure of the node holds both
C12_Witness ==
    \E n, c, d, e \in Objects :
        /\ IsSecondary(structs[n].cls)
        /\ structs[c]._parent = n
        /\ structs[n]._dependent = {d}
        /\ structs[c]._dependent = {e}
        /\ d # e
        /\ dependent(n) = {d, e}

----------------------------------------------------------------------------
(* Helpers of the property about the export *)

\* the structures of a layer list for which a row is emitted
Emitted(structures, skip_hidden) ==
    SelectSeq(structures, LAMBDA n : ~(hidden(n) /\ skip_hidden))

RECURSIVE AppendUnseen(_, _)
\* header extended by the keys it does not hold yet, in their order
AppendUnseen(header, keys) ==
    IF keys = <<>> THEN header
    ELSE AppendUnseen(IF Head(keys) \in Range(header) THEN header
                      ELSE Append(header, Head(keys)),
                      Tail(keys))

RECURSIVE FirstSeenUnion(_, _)
\* the union of the keys of the rows of the structures, in first-seen order
FirstSeenUnion(header, structures) ==
    IF structures = <<>> THEN header
    ELSE FirstSeenUnion(AppendUnseen(header, to_dict(Head(structures))),
                        Tail(structures))

(* C13: when write_csvs exports the layers, the header row of every file   *)
(* is the union of the column keys of all emitted (non-skipped) rows in    *)
(* first-seen order, every key of every emitted row is a header column and *)
(* every emitted row is written, also when the emitted nodes have          *)
(* different sets of present dimensions.                                   *)
C13_HeaderIsUnion ==
    [][\A skip_hidden \in BOOLEAN :
          WriteCsvs(skip_hidden) =>
              /\ export'.raised = None
              /\ \A k \in 1..Len(FileNames) :
                    LET emitted == Emitted(LayerSeq(model)[k], skip_hidden)
                        file == export'.files[k]
                    IN /\ file # None
                       /\ file.header = FirstSeenUnion(<<>>, emitted)
                       /\ Len(file.rows) = Len(emitted)
                       /\ \A i \in 1..Len(emitted) :
                             /\ file.rows[i].of = emitted[i]
                             /\ Range(file.rows[i].keys)
                                   \subseteq Range(file.header)]_vars

\* each effective need has one possible value whatever the iteration orders
EffectiveDetermined ==
    \A n \in Objects : \A d \in Dimensions : Cardinality(effective(n, d)) = 1
====
